---- MODULE Spec2Model ----
(***************************************************************************)
(* Verification model of three numerical cores of the track reconstruction *)
(* toolkit:                                                                *)
(*   - GaussianGridTrackDensity  (1-dim density grid, add/remove a track)  *)
(*   - NumericalTrackLinearizer::linearizeTrack                            *)
(*   - Experimental::Gx2Fitter   (actor, aborter, fit loop)                *)
(* Real numbers are modelled by integers in fixed units; the float bins of *)
(* the density grid keep a finite mantissa (RoundF).                       *)
(***************************************************************************)
EXTENDS Integers, Sequences, FiniteSets, TLC

VARIABLES
    \* --- GaussianGridTrackDensity (caller side: the grid and the cached tracks)
    mainGrid,       \* MainGridVector: bin -> float density
    trackCache,     \* the (binIndex, trackGrid) pairs addTrack returned, not yet removed
    gridOp,         \* the last grid operation
    preAddGrid,     \* the main grid as it was before the last addTrack
    lastAdded,      \* the (binIndex, trackGrid) pair of the last addTrack
    gridSteps,      \* the number of grid operations made
    \* --- NumericalTrackLinearizer::linearizeTrack (one call)
    linPc,              \* the position in linearizeTrack
    linInput,           \* params: the track to linearize, with or without covariance
    linResult,          \* result of the propagation to the PCA
    endParams,          \* *result->endParameters as the call read it
    perigeeParams,      \* BoundVector perigeeParams
    paramVec,           \* (x, y, z, t, phi, theta, q/p) at the PCA
    completeJacobian,   \* ActsMatrix<eBoundSize, eLinSize>
    linI,               \* the loop index i of the wiggle loop
    wiggledVecs,        \* paramVecCopy of every loop iteration made so far
    newPerigees,        \* newPerigeeParams of every loop iteration made so far
    pOptionsDirection,  \* pOptions.direction of the last propagation
    linErrorLogged,     \* whether ACTS_ERROR("Wiggled theta outside range") ran
    linReadMissing,     \* whether end parameters or a covariance that are not there were read
    linFailures,        \* the number of failed propagations of this call
    linOutcome,         \* what the call handed to its caller
    linearizedTrack,    \* the LinearizedTrack the call returned
    \* --- Gx2Fitter::fit (one call), its actor and aborter, the propagation
    fitPc,               \* the position in fit
    fitInput,            \* the arguments: source links, start parameters, options
    inputMeasurements,   \* std::map<GeometryIdentifier, SourceLink>
    params,              \* the working parameters (params.parameters())
    deltaParams,         \* BoundVector deltaParams
    chi2sum,             \* double chi2sum
    aMatrix,             \* BoundMatrix aMatrix
    bVector,             \* BoundVector bVector
    nUpdate,             \* the loop counter nUpdate
    result,              \* the Gx2FitterResult of the running propagation
    propPhase,           \* whose turn it is in the propagation: actor, aborter, post
    navPos,              \* the last surface the navigator reached (0: none yet)
    externalSurfaces,    \* the surfaces inserted as external surfaces
    stepperPath,         \* the path since the stepper's Jacobian was last reset
    trackStateContainer, \* trackContainer.trackStateContainer(): the shared trajectory
    tracks,              \* the tracks of the caller's track container
    bsFailures,          \* the number of failed boundState calls of this fit
    fitOutcome,          \* what fit handed to its caller
    \* --- GaussianGridTrackDensity: one density query on a grid
    queryGrid,              \* the main grid handed to the query
    useHighestSumZPosition, \* Config::useHighestSumZPosition
    queryOp,                \* the query that was made
    queryResult,            \* what the query returned
    \* --- the default delegates of Gx2FitterExtensions on one track state
    trackState,      \* the TrackStateProxy handed to the delegates
    delegateOp,      \* the delegate that was called last
    updaterResult,   \* what the updater returned
    outlierResult,   \* what the outlier finder returned
    \* --- construction of curvilinear track parameters (the Construct test cases)
    curvPc,          \* the position in the test case
    curvInput,       \* the data of the test case: hypothesis, pos4, dir, p, q, cov
    curvParams       \* the variable 'params' of the test case

gridVars == <<mainGrid, trackCache, gridOp, preAddGrid, lastAdded, gridSteps>>

linVars == <<linPc, linInput, linResult, endParams, perigeeParams, paramVec,
             completeJacobian, linI, wiggledVecs, newPerigees, pOptionsDirection,
             linErrorLogged, linReadMissing, linFailures, linOutcome, linearizedTrack>>

fitVars == <<fitPc, fitInput, inputMeasurements, params, deltaParams, chi2sum,
             aMatrix, bVector, nUpdate, result, propPhase, navPos, externalSurfaces,
             stepperPath, trackStateContainer, tracks, bsFailures, fitOutcome>>

queryVars == <<queryGrid, useHighestSumZPosition, queryOp, queryResult>>

delegateVars == <<trackState, delegateOp, updaterResult, outlierResult>>

curvVars == <<curvPc, curvInput, curvParams>>

vars == <<gridVars, linVars, fitVars, queryVars, delegateVars, curvVars>>

\* what a step of one component leaves alone
nonGridVars == <<linVars, fitVars, queryVars, delegateVars, curvVars>>

nonLinVars == <<gridVars, fitVars, queryVars, delegateVars, curvVars>>

nonFitVars == <<gridVars, linVars, queryVars, delegateVars, curvVars>>

nonQueryVars == <<gridVars, linVars, fitVars, curvVars, delegateVars>>

nonDelegateVars == <<gridVars, linVars, fitVars, queryVars, curvVars>>

nonCurvVars == <<gridVars, linVars, fitVars, queryVars, delegateVars>>

Abs(x) == IF x < 0 THEN -x ELSE x

Max(a, b) == IF a >= b THEN a ELSE b

RECURSIVE Pow2(_)
Pow2(n) == IF n = 0 THEN 1 ELSE 2 * Pow2(n - 1)

(***************************************************************************)
(* float: Eigen::Matrix<float, ...>.  A float keeps MantissaBits           *)
(* significant bits; a sum or difference is rounded to the nearest         *)
(* representable value, ties to the even mantissa.                         *)
(***************************************************************************)
MantissaBits == 3

RECURSIVE UlpFrom(_, _)
UlpFrom(a, u) == IF a < Pow2(MantissaBits) * u THEN u ELSE UlpFrom(a, 2 * u)

\* the spacing of the floats around x
Ulp(x) == UlpFrom(Abs(x), 1)

RoundF(x) ==
    LET a == Abs(x)
        u == Ulp(a)
        q == a \div u
        r == a % u
        m == IF 2 * r < u THEN q
             ELSE IF 2 * r > u THEN q + 1
             ELSE IF q % 2 = 0 THEN q ELSE q + 1
    IN  IF x < 0 THEN -(m * u) ELSE m * u

(***************************************************************************)
(* GaussianGridTrackDensity<mainGridSize, trkGridSize>                     *)
(***************************************************************************)
TrkHalfWidth == 1

trkGridSize == 2 * TrkHalfWidth + 1

mainGridSize == trkGridSize + 2

\* Config: the z range and the bin size derived from it
zMinMax == mainGridSize

binSize == (2 * zMinMax) \div mainGridSize

MainBins == 0 .. (mainGridSize - 1)

TrkBins == 0 .. (trkGridSize - 1)

\* the largest peak density of one track, the number of cached tracks
MaxAmplitude == 12

MaxTracks == 2

\* the number of add/remove calls of one run
MaxGridSteps == 3

\* z positions at both ends of the axis range and around its middle
ZPositions == {-zMinMax, -1, 0, zMinMax - 1}

Amplitudes == {1, MaxAmplitude}

Widths == {1, 2}

\* the bin of the z axis the position falls into
ZBinOf(z0) == (z0 + zMinMax) \div binSize

\* createTrackGrid: the density of the track in the bins around its centre,
\* falling off with the distance from the centre bin, faster for a small width
CreateTrackGrid(amp, width) ==
    [i \in TrkBins |->
        RoundF(amp \div Pow2((3 - width) * Abs(i - TrkHalfWidth)))]

\* a modification that forgets the mode sign, so that a removal adds
ModifyMainGridWithTrackGridNoSign(zBin, trkGrid, grid, modifyModeSign) ==
    LET width == (trkGridSize - 1) \div 2
        first == Max(zBin - width, 0)
        last == IF zBin + width > mainGridSize - 1 THEN mainGridSize - 1
                ELSE zBin + width
    IN  [b \in MainBins |->
            IF b >= first /\ b <= last
            THEN RoundF(grid[b] + trkGrid[b - (zBin - width)])
            ELSE grid[b]]

\* modifyMainGridWithTrackGrid: add (+1) or remove (-1) the part of the track
\* grid that overlaps the main grid
ModifyMainGridWithTrackGrid(zBin, trkGrid, grid, modifyModeSign) ==
    LET width == (trkGridSize - 1) \div 2
        leftOL == IF zBin - width < 0 THEN width - zBin ELSE 0
        rightOL == IF zBin + width > mainGridSize - 1
                   THEN zBin + width - (mainGridSize - 1) ELSE 0
        first == zBin - width + leftOL
        count == trkGridSize - rightOL - leftOL
    IN  [b \in MainBins |->
            IF b >= first /\ b < first + count
            THEN RoundF(grid[b] + modifyModeSign * trkGrid[leftOL + (b - first)])
            ELSE grid[b]]

AddTrackGridToMainGrid(zBin, trkGrid, grid) ==
    ModifyMainGridWithTrackGrid(zBin, trkGrid, grid, 1)

RemoveTrackGridFromMainGrid(zBin, trkGrid, grid) ==
    ModifyMainGridWithTrackGrid(zBin, trkGrid, grid, -1)

GridInit ==
    /\ mainGrid = [b \in MainBins |-> 0]
    /\ trackCache = <<>>
    /\ gridOp = "none"
    /\ preAddGrid = [b \in MainBins |-> 0]
    /\ lastAdded = [zBin |-> 0, trkGrid |-> [i \in TrkBins |-> 0]]
    /\ gridSteps = 0

\* addTrack: rasterize the track, add it to the main grid, return (zBin, trackGrid)
AddTrack(z0, amp, width) ==
    /\ gridSteps < MaxGridSteps
    /\ Len(trackCache) < MaxTracks
    /\ gridSteps' = gridSteps + 1
    /\ LET zBin == ZBinOf(z0)
           trkGrid == CreateTrackGrid(amp, width)
       IN  /\ mainGrid' = AddTrackGridToMainGrid(zBin, trkGrid, mainGrid)
           /\ lastAdded' = [zBin |-> zBin, trkGrid |-> trkGrid]
           /\ trackCache' = Append(trackCache, [zBin |-> zBin, trkGrid |-> trkGrid])
    /\ preAddGrid' = mainGrid
    /\ gridOp' = "add"
    /\ UNCHANGED nonGridVars

\* removeTrackGridFromMainGrid with the pair the k-th cached add returned
RemoveTrack(k) ==
    /\ gridSteps < MaxGridSteps
    /\ k \in 1 .. Len(trackCache)
    /\ gridSteps' = gridSteps + 1
    /\ mainGrid' = RemoveTrackGridFromMainGrid(trackCache[k].zBin,
                                               trackCache[k].trkGrid, mainGrid)
    /\ trackCache' = [i \in 1 .. (Len(trackCache) - 1) |->
                         IF i < k THEN trackCache[i] ELSE trackCache[i + 1]]
    /\ gridOp' = IF gridOp = "add" /\ k = Len(trackCache)
                 THEN "removeLast" ELSE "remove"
    /\ UNCHANGED <<preAddGrid, lastAdded>>
    /\ UNCHANGED nonGridVars

GridNext ==
    \/ \E z0 \in ZPositions, amp \in Amplitudes, width \in Widths :
          AddTrack(z0, amp, width)
    \/ \E k \in 1 .. MaxTracks : RemoveTrack(k)


(***************************************************************************)
(* Angles and parameter indices.  Angles are integers, Pi units to a half  *)
(* turn.                                                                   *)
(***************************************************************************)
Pi == 8

TwoPi == 2 * Pi

\* LinIndices: the linearizer's track vector (x, y, z, t, phi, theta, q/p)
eLinPos0 == 0

eLinPos1 == 1

eLinPos2 == 2

eLinTime == 3

eLinPhi == 4

eLinTheta == 5

eLinQOverP == 6

eLinSize == 7

eLinPosSize == 4

eLinMomSize == 3

\* BoundIndices: the bound track parameters (loc0, loc1, phi, theta, q/p, t)
eBoundLoc0 == 0

eBoundLoc1 == 1

eBoundPhi == 2

eBoundTheta == 3

eBoundQOverP == 4

eBoundTime == 5

eBoundSize == 6

LinIdx == 0 .. (eLinSize - 1)

BoundIdx == 0 .. (eBoundSize - 1)

\* a / b of two real numbers, in the integer units of the model
Quot(a, b) == IF a >= 0 THEN a \div b ELSE -((-a) \div b)

\* std::fmod: the remainder has the sign of the dividend
Fmod(a, n) == IF a >= 0 THEN a % n ELSE -((-a) % n)

\* detail::difference_periodic: lhs - rhs wrapped into [-range/2, range/2)
DifferencePeriodic(lhs, rhs, range) ==
    LET d == Fmod(lhs - rhs, range)
    IN  IF 2 * d < -range THEN d + range
        ELSE IF range <= 2 * d THEN d - range
        ELSE d

\* detail::radian_sym: an angle in [-pi, pi)
RadianSym(x) == DifferencePeriodic(x, 0, TwoPi)

(***************************************************************************)
(* NumericalTrackLinearizer::linearizeTrack                                *)
(***************************************************************************)
\* m_cfg.delta: the wiggle
Delta == 2

\* the number of propagations of one call that may fail
MaxLinFailures == 1

ZeroBound == [b \in BoundIdx |-> 0]

\* the tracks given to linearizeTrack: the 7 coordinates and the covariance flag
LinInputs ==
    {[vec |-> [c \in LinIdx |->
                  CASE c = eLinPos0 -> x
                    [] c = eLinPos1 -> 0
                    [] c = eLinPos2 -> z
                    [] c = eLinTime -> 0
                    [] c = eLinPhi -> phi
                    [] c = eLinTheta -> theta
                    [] OTHER -> 1],
      hasCov |-> hc] :
        x \in {-1, 0, 3}, z \in {0, 1}, phi \in {0, Pi - 1, -Pi},
        theta \in {1, Pi \div 2, Pi - 1}, hc \in BOOLEAN}

\* makeDirectionFromPhiTheta and the angles the curvilinear parameters built
\* from that direction carry: a theta outside [0, pi] folds back into the range
\* and turns phi by half a turn
DirectionAngles(phi, theta) ==
    IF theta > Pi THEN [phi |-> RadianSym(phi + Pi), theta |-> TwoPi - theta]
    ELSE IF theta < 0 THEN [phi |-> RadianSym(phi + Pi), theta |-> -theta]
    ELSE [phi |-> RadianSym(phi), theta |-> theta]

\* CurvilinearTrackParameters(paramVecCopy.head(4), wiggledDir, q/p)
WiggledCurvilinearParams(vecCopy) ==
    LET a == DirectionAngles(vecCopy[eLinPhi], vecCopy[eLinTheta])
    IN  [vecCopy EXCEPT ![eLinPhi] = a.phi, ![eLinTheta] = a.theta]

\* perigeeSurface->intersect(...).pathLength: the signed straight-line path
\* from the position to the point closest to the Perigee axis
IntersectPathLength(vec) ==
    IF Abs(RadianSym(vec[eLinPhi])) <= Pi \div 2
    THEN -vec[eLinPos0] ELSE vec[eLinPos0]

\* Direction::fromScalarZeroAsPositive
FromScalarZeroAsPositive(scalar) ==
    IF scalar >= 0 THEN "Forward" ELSE "Backward"

\* propagator->propagate(track, perigeeSurface): the end parameters of a
\* successful propagation of the track with the given 7 coordinates; z0 is the
\* z of the track where it is closest to the axis, the path times the slope away
PropagateToPerigee(vec, hasCov) ==
    [present |-> TRUE,
     parameters |->
        [b \in BoundIdx |->
            CASE b = eBoundLoc0 -> vec[eLinPos1] - vec[eLinPos0]
              [] b = eBoundLoc1 ->
                    RoundF(vec[eLinPos2]
                               + IntersectPathLength(vec) * (Pi \div 2 - vec[eLinTheta]))
              [] b = eBoundPhi -> RadianSym(vec[eLinPhi])
              [] b = eBoundTheta -> vec[eLinTheta]
              [] b = eBoundQOverP -> vec[eLinQOverP]
              [] OTHER -> vec[eLinTime]],
     position |-> <<vec[eLinPos0], vec[eLinPos1], vec[eLinPos2]>>,
     time |-> vec[eLinTime],
     hasCov |-> hasCov]

\* result.endParameters of a failed propagation
NoEndParameters ==
    [present |-> FALSE, parameters |-> ZeroBound, position |-> <<0, 0, 0>>,
     time |-> 0, hasCov |-> FALSE]

\* what reading the end parameters of a failed result can yield when the read
\* does not stop the program
IndeterminateEndParameters ==
    {[present |-> FALSE, parameters |-> ZeroBound, position |-> <<0, 0, 0>>,
      time |-> 0, hasCov |-> hc] : hc \in BOOLEAN}

ZeroJacobian == [r \in BoundIdx |-> [c \in LinIdx |-> 0]]

\* completeJacobian.col(i) = (newPerigeeParams - perigeeParams) / delta, then
\* completeJacobian(eLinPhi, i) = difference_periodic(newPerigeeParams(eLinPhi),
\*                                                   perigeeParams(eLinPhi), 2pi) / delta
JacobianColumn(newP, oldP) ==
    [r \in BoundIdx |->
        IF r = eLinPhi
        THEN Quot(DifferencePeriodic(newP[eLinPhi], oldP[eLinPhi], TwoPi), Delta)
        ELSE Quot(newP[r] - oldP[r], Delta)]

SetColumn(jac, i, col) == [r \in BoundIdx |-> [jac[r] EXCEPT ![i] = col[r]]]

\* the sum of row[k] * v[k] over k < n, rounded after every operation
RECURSIVE DotR(_, _, _)
DotR(row, v, n) ==
    IF n = 0 THEN 0
    ELSE RoundF(DotR(row, v, n - 1) + RoundF(row[n - 1] * v[n - 1]))

\* the product of a matrix with n columns and a vector
MulR(M, v, n) == [b \in BoundIdx |-> DotR(M[b], v, n)]

\* completeJacobian.block<eBoundSize, eLinPosSize>(0, 0)
PositionJacobian(J) ==
    [b \in BoundIdx |-> [c \in 0 .. (eLinPosSize - 1) |-> J[b][c]]]

\* completeJacobian.block<eBoundSize, eLinMomSize>(0, eLinPosSize)
MomentumJacobian(J) ==
    [b \in BoundIdx |-> [c \in 0 .. (eLinMomSize - 1) |-> J[b][eLinPosSize + c]]]

\* a constant term without the momentum part
ConstTermPositionOnly(p, posJ, pca, momJ, mom) ==
    [b \in BoundIdx |-> RoundF(p[b] - MulR(posJ, pca, eLinPosSize)[b])]

\* perigeeParams - positionJacobian * pca - momentumJacobian * momentumAtPCA
ConstTerm(p, posJ, pca, momJ, mom) ==
    [b \in BoundIdx |->
        RoundF(RoundF(p[b] - MulR(posJ, pca, eLinPosSize)[b])
                   - MulR(momJ, mom, eLinMomSize)[b])]

NoLinearizedTrack == <<>>

\* lines 82-83, 139-151: the LinearizedTrack of the return statement
MakeLinearizedTrack(p, J, pv) ==
    LET pca == [c \in 0 .. (eLinPosSize - 1) |-> pv[c]]
        momentumAtPCA == [c \in 0 .. (eLinMomSize - 1) |-> pv[eLinPosSize + c]]
    IN  [parametersAtPCA |-> p,
         positionJacobian |-> PositionJacobian(J),
         momentumJacobian |-> MomentumJacobian(J),
         positionAtPCA |-> pca,
         momentumAtPCA |-> momentumAtPCA,
         constTerm |-> ConstTerm(p, PositionJacobian(J), pca,
                                 MomentumJacobian(J), momentumAtPCA)]

LinInit ==
    /\ linPc = "start"
    /\ linInput \in LinInputs
    /\ linResult = [ok |-> TRUE, endParameters |-> NoEndParameters]
    /\ endParams = NoEndParameters
    /\ perigeeParams = ZeroBound
    /\ paramVec = [c \in LinIdx |-> 0]
    /\ completeJacobian = ZeroJacobian
    /\ linI = 0
    /\ wiggledVecs = <<>>
    /\ newPerigees = <<>>
    /\ pOptionsDirection = "Forward"
    /\ linErrorLogged = FALSE
    /\ linReadMissing = FALSE
    /\ linFailures = 0
    /\ linOutcome = "none"
    /\ linearizedTrack = NoLinearizedTrack

\* lines 33-48: choose the direction, propagate to the PCA of linPointPos
LinPropagate(ok) ==
    /\ linPc = "start"
    /\ ok \/ linFailures < MaxLinFailures
    /\ pOptionsDirection' =
           FromScalarZeroAsPositive(IntersectPathLength(linInput.vec))
    /\ linResult' =
           IF ok
           THEN [ok |-> TRUE,
                 endParameters |-> PropagateToPerigee(linInput.vec, linInput.hasCov)]
           ELSE [ok |-> FALSE, endParameters |-> NoEndParameters]
    /\ linFailures' = IF ok THEN linFailures ELSE linFailures + 1
    /\ linPc' = "propagated"
    /\ UNCHANGED <<linInput, endParams, perigeeParams, paramVec, completeJacobian,
                   linI, wiggledVecs, newPerigees, linErrorLogged, linReadMissing,
                   linOutcome>>
    /\ UNCHANGED linearizedTrack
    /\ UNCHANGED nonLinVars

\* lines 50-52: endParams = *result->endParameters, with no test of result.ok()
LinReadEndParameters ==
    /\ linPc = "propagated"
    /\ \/ /\ linResult.ok
          /\ endParams' = linResult.endParameters
          /\ perigeeParams' = linResult.endParameters.parameters
          /\ linPc' = "haveEnd"
          /\ UNCHANGED <<linReadMissing, linOutcome>>
       \/ /\ ~linResult.ok
          /\ linPc' = "aborted"
          /\ linOutcome' = "abort"
          /\ UNCHANGED <<endParams, perigeeParams, linReadMissing>>
       \/ /\ ~linResult.ok
          /\ \E g \in IndeterminateEndParameters :
                /\ endParams' = g
                /\ perigeeParams' = g.parameters
          /\ linReadMissing' = TRUE
          /\ linPc' = "haveEnd"
          /\ UNCHANGED linOutcome
    /\ UNCHANGED <<linInput, linResult, paramVec, completeJacobian, linI,
                   wiggledVecs, newPerigees, pOptionsDirection, linErrorLogged,
                   linFailures>>
    /\ UNCHANGED linearizedTrack
    /\ UNCHANGED nonLinVars

\* lines 54-56: endParams.covariance().value() throws when there is none
LinReadCovariance ==
    /\ linPc = "haveEnd"
    /\ IF endParams.hasCov
       THEN /\ linPc' = "haveCov"
            /\ UNCHANGED <<linReadMissing, linOutcome>>
       ELSE /\ linPc' = "threw"
            /\ linOutcome' = "bad_optional_access"
            /\ linReadMissing' = TRUE
    /\ UNCHANGED <<linInput, linResult, endParams, perigeeParams, paramVec,
                   completeJacobian, linI, wiggledVecs, newPerigees,
                   pOptionsDirection, linErrorLogged, linFailures>>
    /\ UNCHANGED linearizedTrack
    /\ UNCHANGED nonLinVars

\* lines 58-98: fill paramVec, zero the Jacobian, check the wiggled theta
LinFillParamVec ==
    /\ linPc = "haveCov"
    /\ paramVec' =
           [c \in LinIdx |->
               CASE c = eLinPos0 -> endParams.position[1]
                 [] c = eLinPos1 -> endParams.position[2]
                 [] c = eLinPos2 -> endParams.position[3]
                 [] c = eLinTime -> endParams.time
                 [] c = eLinPhi -> perigeeParams[eBoundPhi]
                 [] c = eLinTheta -> perigeeParams[eBoundTheta]
                 [] OTHER -> perigeeParams[eBoundQOverP]]
    /\ completeJacobian' = ZeroJacobian
    /\ linErrorLogged' = (paramVec'[eLinTheta] + Delta > Pi)
    /\ linI' = 0
    /\ linPc' = "wiggle"
    /\ UNCHANGED <<linInput, linResult, endParams, perigeeParams, wiggledVecs,
                   newPerigees, pOptionsDirection, linReadMissing, linFailures,
                   linOutcome>>
    /\ UNCHANGED linearizedTrack
    /\ UNCHANGED nonLinVars

\* lines 103-137: one iteration of the wiggle loop
LinWiggle(ok) ==
    /\ linPc = "wiggle"
    /\ linI < eLinSize
    /\ ok \/ linFailures < MaxLinFailures
    /\ linFailures' = IF ok THEN linFailures ELSE linFailures + 1
    /\ LET paramVecCopy == [paramVec EXCEPT ![linI] = @ + Delta]
           wiggled == WiggledCurvilinearParams(paramVecCopy)
       IN  /\ pOptionsDirection' =
                  FromScalarZeroAsPositive(IntersectPathLength(wiggled))
           /\ wiggledVecs' = Append(wiggledVecs, paramVecCopy)
           /\ \/ /\ ok
                 /\ LET newP == PropagateToPerigee(wiggled, FALSE).parameters
                    IN  /\ newPerigees' = Append(newPerigees, newP)
                        /\ completeJacobian' =
                               SetColumn(completeJacobian, linI,
                                         JacobianColumn(newP, perigeeParams))
                 /\ linI' = linI + 1
                 /\ UNCHANGED <<linPc, linReadMissing, linOutcome>>
              \/ /\ ~ok
                 /\ linPc' = "aborted"
                 /\ linOutcome' = "abort"
                 /\ UNCHANGED <<newPerigees, completeJacobian, linI, linReadMissing>>
              \/ /\ ~ok
                 /\ \E g \in IndeterminateEndParameters :
                       /\ newPerigees' = Append(newPerigees, g.parameters)
                       /\ completeJacobian' =
                              SetColumn(completeJacobian, linI,
                                        JacobianColumn(g.parameters, perigeeParams))
                 /\ linI' = linI + 1
                 /\ linReadMissing' = TRUE
                 /\ UNCHANGED <<linPc, linOutcome>>
    /\ UNCHANGED <<linInput, linResult, endParams, perigeeParams, paramVec,
                   linErrorLogged>>
    /\ UNCHANGED linearizedTrack
    /\ UNCHANGED nonLinVars

\* lines 139-151: split the Jacobian, compute the constant term, return
LinReturn ==
    /\ linPc = "wiggle"
    /\ linI = eLinSize
    /\ linPc' = "done"
    /\ linOutcome' = "LinearizedTrack"
    /\ linearizedTrack' = MakeLinearizedTrack(perigeeParams, completeJacobian, paramVec)
    /\ UNCHANGED <<linInput, linResult, endParams, perigeeParams, paramVec,
                   completeJacobian, linI, wiggledVecs, newPerigees,
                   pOptionsDirection, linErrorLogged, linReadMissing, linFailures>>
    /\ UNCHANGED nonLinVars

LinNext ==
    \/ \E ok \in BOOLEAN : LinPropagate(ok)
    \/ LinReadEndParameters
    \/ LinReadCovariance
    \/ LinFillParamVec
    \/ \E ok \in BOOLEAN : LinWiggle(ok)
    \/ LinReturn


(***************************************************************************)
(* Linear algebra on bound vectors and matrices (indices 0 .. eBoundSize-1)*)
(* and on the 2-dim measurement space.                                     *)
(***************************************************************************)
MeasIdx == 0 .. 1

\* the sum of f[i] over the indices lo .. hi
RECURSIVE SumTo(_, _, _)
SumTo(f, lo, hi) == IF lo > hi THEN 0 ELSE f[lo] + SumTo(f, lo + 1, hi)

SumOver(f, n) == SumTo(f, 0, n - 1)

ZeroMatrix == [i \in BoundIdx |-> [j \in BoundIdx |-> 0]]

IdentityMatrix == [i \in BoundIdx |-> [j \in BoundIdx |-> IF i = j THEN 1 ELSE 0]]

MatMul(A, B) ==
    [i \in BoundIdx |-> [j \in BoundIdx |->
        SumOver([k \in BoundIdx |-> A[i][k] * B[k][j]], eBoundSize)]]

MatVec(A, v) ==
    [i \in BoundIdx |-> SumOver([k \in BoundIdx |-> A[i][k] * v[k]], eBoundSize)]

MatAdd(A, B) == [i \in BoundIdx |-> [j \in BoundIdx |-> A[i][j] + B[i][j]]]

VecAdd(v, w) == [i \in BoundIdx |-> v[i] + w[i]]

\* the inverse of a 2x2 matrix
Inverse2(c) ==
    LET det == c[0][0] * c[1][1] - c[0][1] * c[1][0]
    IN  [i \in MeasIdx |-> [j \in MeasIdx |->
            IF i = j THEN Quot(c[1 - i][1 - j], det) ELSE Quot(-c[i][j], det)]]

\* a sequence without its k-th element
Without(seq, k) == [i \in 1 .. (Len(seq) - 1) |-> IF i < k THEN seq[i] ELSE seq[i + 1]]

\* the determinant of the submatrix of M with the given rows and columns
RECURSIVE DetOf(_, _, _)
DetOf(M, rows, cols) ==
    IF Len(rows) = 0 THEN 1
    ELSE SumTo([k \in 1 .. Len(cols) |->
                   (IF k % 2 = 1 THEN 1 ELSE -1) * M[rows[1]][cols[k]]
                       * DetOf(M, Tail(rows), Without(cols, k))],
               1, Len(cols))

(***************************************************************************)
(* Gx2Fitter: constants, inputs and the collaborators of one fit.          *)
(***************************************************************************)
\* const size_t reducedMatrixSize = 4
reducedMatrixSize == 4

\* the surface count beyond which the actor finishes (surfaceCount > 11)
SurfaceLimit == 11

\* MultiTrajectoryTraits::kInvalid, the no-parent sentinel
kInvalid == -1

ReducedIdx == 0 .. (reducedMatrixSize - 1)

ReducedSeq == [i \in 1 .. reducedMatrixSize |-> i - 1]

\* the largest nUpdateMax, and the number of failed boundState calls of one fit
MaxUpdates == 2

MaxBoundStateFailures == 1

\* the surfaces of a short track
NearSurfaces == 3

\* the number of surfaces along the track: geometry ids 1 .. numSurfaces in order
WorldSizes == {NearSurfaces, SurfaceLimit + 2}

\* the parameters of the particle that made the measurements
TrueParameters ==
    [i \in BoundIdx |->
        CASE i = eBoundTheta -> 1
          [] i = eBoundQOverP -> 1
          [] i = eBoundTime -> 2
          [] OTHER -> 0]

StartParameters ==
    {TrueParameters, [TrueParameters EXCEPT ![eBoundLoc0] = 1, ![eBoundTheta] = 0]}

\* the stepper's transport Jacobian over a path of length d: the local
\* position drifts with the angles and bends with q/p
SegmentJacobian(d) ==
    [i \in BoundIdx |-> [j \in BoundIdx |->
        IF i = j THEN 1
        ELSE IF (i = eBoundLoc0 /\ j \in {eBoundPhi, eBoundQOverP})
                \/ (i = eBoundLoc1 /\ j = eBoundTheta)
             THEN d ELSE 0]]

\* the bound parameters of a track with start parameters p at surface geoId
BoundParametersAt(p, geoId) == MatVec(SegmentJacobian(geoId), p)

CovarianceOf(k) ==
    LET c == IF k = 0 THEN <<<<1, 0>>, <<0, 1>>>> ELSE <<<<2, 1>>, <<1, 1>>>>
    IN  [i \in MeasIdx |-> [j \in MeasIdx |-> c[i + 1][j + 1]]]

\* a source link: its surface, and what the connected calibrator makes of it
SourceLinkOf(geoId, noise, covKind) ==
    [geoId |-> geoId,
     calibrated |-> [i \in MeasIdx |->
                        BoundParametersAt(TrueParameters, geoId)[i]
                            + (IF i = 0 THEN noise ELSE 0)],
     calibratedCovariance |-> CovarianceOf(covKind)]

\* the source links of the inputs: two on surface 1 that differ, one on surface
\* 2 with correlated coordinates, one on the surface after the limit
LinkOnFirst == SourceLinkOf(1, 0, 0)

LinkOnFirstShifted == SourceLinkOf(1, 1, 0)

LinkOnSecond == SourceLinkOf(2, 0, 1)

LinkBeyondLimit == SourceLinkOf(SurfaceLimit + 1, 0, 0)

\* the ranges [it, end) of the inputs
SourceLinkSequences ==
    {<<>>,
     <<LinkOnFirst>>,
     <<LinkOnFirst, LinkOnFirstShifted>>,
     <<LinkOnFirstShifted, LinkOnFirst>>,
     <<LinkOnFirst, LinkOnSecond>>,
     <<LinkOnFirstShifted, LinkOnSecond>>,
     <<LinkOnSecond, LinkOnFirst, LinkOnFirstShifted>>,
     <<LinkBeyondLimit>>,
     <<LinkOnFirst, LinkBeyondLimit>>}

FitInputs ==
    [sourceLinks : SourceLinkSequences,
     sParameters : StartParameters,
     nUpdateMax : 0 .. MaxUpdates,
     calibrator : {"voidKalmanCalibrator", "connected"},
     numSurfaces : WorldSizes]

\* a default-constructed Gx2FitterResult
NewResult ==
    [lastMeasurementIndex |-> kInvalid,
     lastTrackIndex |-> kInvalid,
     measurementStates |-> 0,
     measurementHoles |-> 0,
     processedStates |-> 0,
     finished |-> FALSE,
     resultOk |-> TRUE,
     collectorResiduals |-> <<>>,
     collectorCovariance |-> <<>>,
     collectorJacobians |-> <<>>,
     jacobianFromStart |-> IdentityMatrix,
     surfaceCount |-> 0]

RECURSIVE EmplaceAllOverwriting(_, _)
RECURSIVE EmplaceAll(_, _)

\* a later source link replaces the one that is already there
EmplaceAllOverwriting(links, k) ==
    IF k = 0 THEN <<>>
    ELSE LET m == EmplaceAllOverwriting(links, k - 1)
         IN  (links[k].geoId :> links[k]) @@ m

\* inputMeasurements.emplace(geoId, sl) for the first k source links, in order:
\* emplace keeps the element that is already there
EmplaceAll(links, k) ==
    IF k = 0 THEN <<>>
    ELSE LET m == EmplaceAll(links, k - 1)
         IN  IF links[k].geoId \in DOMAIN m THEN m
             ELSE m @@ (links[k].geoId :> links[k])

\* MultiTrajectory::addTrackState(mask, parent): the container with one more entry
AddTrackState(container, parent) ==
    Append(container, [parent |-> parent, surface |-> 0, sourceLink |-> 0])

(***************************************************************************)
(* Actor::operator(): what one invocation makes of the result.             *)
(***************************************************************************)
\* lines 530-533
ActorFinishCheck(res) ==
    IF res.surfaceCount > SurfaceLimit THEN [res EXCEPT !.finished = TRUE] ELSE res

\* an error path that marks the result as failed
ActorOnBoundStateErrorFailed(res) ==
    [res EXCEPT !.surfaceCount = @ + 1, !.resultOk = FALSE]

\* lines 461-478: a measurement surface whose boundState fails: the surface is
\* counted and the actor returns at once
ActorOnBoundStateError(res) ==
    [res EXCEPT !.surfaceCount = @ + 1]

\* lines 461-469, 530-533: a surface without a measurement
ActorOnPassiveSurface(res) ==
    ActorFinishCheck([res EXCEPT !.surfaceCount = @ + 1])

\* a residual is pushed before the calibrator ran
ActorBeforeCalibrationRecording(res, jacobian) ==
    [res EXCEPT !.surfaceCount = @ + 1,
                !.jacobianFromStart = MatMul(jacobian, @),
                !.collectorResiduals = Append(@, [i \in MeasIdx |-> 0])]

\* lines 461-480: up to the calibrator call
ActorBeforeCalibration(res, jacobian) ==
    [res EXCEPT !.surfaceCount = @ + 1,
                !.jacobianFromStart = MatMul(jacobian, @)]

\* residual[i] = measurement[i] - predicted[i]
ResidualOf(measurement, predicted) ==
    [i \in MeasIdx |-> measurement[i] - predicted[i]]

\* the measurement covariance is pushed a second time
ActorOnMeasurementCovarianceTwice(res, jacobian, predicted, link) ==
    LET r1 == ActorBeforeCalibration(res, jacobian)
    IN  ActorFinishCheck(
            [r1 EXCEPT
                !.collectorResiduals = Append(@, ResidualOf(link.calibrated, predicted)),
                !.collectorCovariance =
                    Append(Append(@, link.calibratedCovariance), link.calibratedCovariance),
                !.collectorJacobians = Append(@, r1.jacobianFromStart)])

\* lines 461-533: a measurement surface, boundState and calibrator succeed
ActorOnMeasurement(res, jacobian, predicted, link) ==
    LET r1 == ActorBeforeCalibration(res, jacobian)
    IN  ActorFinishCheck(
            [r1 EXCEPT
                !.collectorResiduals = Append(@, ResidualOf(link.calibrated, predicted)),
                !.collectorCovariance = Append(@, link.calibratedCovariance),
                !.collectorJacobians = Append(@, r1.jacobianFromStart)])

\* Aborter::operator()
AborterSaysStop(res) == (~res.resultOk) \/ res.finished

(***************************************************************************)
(* The propagation of one iteration: the propagator calls the actor, then  *)
(* the aborter, step after step, and the actor once more when it stops.    *)
(***************************************************************************)
InPropagation(phase) == fitPc = "propagate" /\ propPhase = phase

\* lines 447-455: processedStates is never advanced, so every invocation inserts
InsertExternalSurfaces ==
    IF result.processedStates = 0
    THEN externalSurfaces \cup DOMAIN inputMeasurements
    ELSE externalSurfaces

fitLoopVars == <<fitInput, inputMeasurements, params, deltaParams, chi2sum,
                 aMatrix, bVector, nUpdate, trackStateContainer, tracks>>

\* an invocation between two surfaces: currentSurface is null
ActorNoSurface ==
    /\ InPropagation("actor")
    /\ ~result.finished
    /\ externalSurfaces' = InsertExternalSurfaces
    /\ result' = ActorFinishCheck(result)
    /\ propPhase' = "aborter"
    /\ UNCHANGED <<fitPc, navPos, stepperPath, bsFailures, fitOutcome, fitLoopVars>>
    /\ UNCHANGED nonFitVars

\* the next surface is reached and carries no measurement
ActorPassiveSurface ==
    /\ InPropagation("actor")
    /\ ~result.finished
    /\ navPos < fitInput.numSurfaces
    /\ (navPos + 1) \notin DOMAIN inputMeasurements
    /\ externalSurfaces' = InsertExternalSurfaces
    /\ navPos' = navPos + 1
    /\ stepperPath' = stepperPath + 1
    /\ result' = ActorOnPassiveSurface(result)
    /\ propPhase' = "aborter"
    /\ UNCHANGED <<fitPc, bsFailures, fitOutcome, fitLoopVars>>
    /\ UNCHANGED nonFitVars

\* the next surface carries a measurement and stepper.boundState fails
ActorBoundStateFails ==
    /\ InPropagation("actor")
    /\ ~result.finished
    /\ navPos < fitInput.numSurfaces
    /\ (navPos + 1) \in DOMAIN inputMeasurements
    /\ bsFailures < MaxBoundStateFailures
    /\ externalSurfaces' = InsertExternalSurfaces
    /\ navPos' = navPos + 1
    /\ stepperPath' = 0
    /\ bsFailures' = bsFailures + 1
    /\ result' = ActorOnBoundStateError(result)
    /\ propPhase' = "aborter"
    /\ UNCHANGED <<fitPc, fitOutcome, fitLoopVars>>
    /\ UNCHANGED nonFitVars

\* the next surface carries a measurement and the calibrator is the default one
ActorCalibratorThrows ==
    /\ InPropagation("actor")
    /\ ~result.finished
    /\ navPos < fitInput.numSurfaces
    /\ (navPos + 1) \in DOMAIN inputMeasurements
    /\ fitInput.calibrator = "voidKalmanCalibrator"
    /\ externalSurfaces' = InsertExternalSurfaces
    /\ navPos' = navPos + 1
    /\ stepperPath' = 0
    /\ result' = ActorBeforeCalibration(result, SegmentJacobian(stepperPath + 1))
    /\ fitPc' = "aborted"
    /\ fitOutcome' = "runtime_error"
    /\ UNCHANGED <<propPhase, bsFailures, fitLoopVars>>
    /\ UNCHANGED nonFitVars

\* the next surface carries a measurement, which is recorded. The track state
\* is added to fittedStates, a copy of the container result.fittedStates points to
ActorMeasurement ==
    /\ InPropagation("actor")
    /\ ~result.finished
    /\ navPos < fitInput.numSurfaces
    /\ (navPos + 1) \in DOMAIN inputMeasurements
    /\ fitInput.calibrator = "connected"
    /\ LET surface == navPos + 1
           fittedStates == AddTrackState(trackStateContainer, result.lastTrackIndex)
           predicted == BoundParametersAt(params, surface)
       IN  /\ Len(fittedStates) = Len(trackStateContainer) + 1
           /\ result' = ActorOnMeasurement(result, SegmentJacobian(stepperPath + 1),
                                           predicted, inputMeasurements[surface])
    /\ externalSurfaces' = InsertExternalSurfaces
    /\ navPos' = navPos + 1
    /\ stepperPath' = 0
    /\ propPhase' = "aborter"
    /\ UNCHANGED <<fitPc, bsFailures, fitOutcome, fitLoopVars>>
    /\ UNCHANGED nonFitVars

\* the abort list after a step; the navigator ends the propagation when no
\* surface is left
AborterCheck ==
    /\ InPropagation("aborter")
    /\ propPhase' = IF AborterSaysStop(result) \/ navPos = fitInput.numSurfaces
                    THEN "post" ELSE "actor"
    /\ UNCHANGED <<fitPc, result, navPos, externalSurfaces, stepperPath, bsFailures,
                   fitOutcome, fitLoopVars>>
    /\ UNCHANGED nonFitVars

\* the call of the action list after the last step (lines 441-443 when finished)
ActorPostCall ==
    /\ InPropagation("post")
    /\ result' = IF result.finished THEN result ELSE ActorFinishCheck(result)
    /\ externalSurfaces' = IF result.finished THEN externalSurfaces
                           ELSE InsertExternalSurfaces
    /\ fitPc' = "propagated"
    /\ UNCHANGED <<propPhase, navPos, stepperPath, bsFailures, fitOutcome, fitLoopVars>>
    /\ UNCHANGED nonFitVars

\* line 656: propRes = *result with no test of result.ok(): a failed
\* propagation holds no Gx2FitterResult, and the read ends the fit without a
\* return value
PropagationFails ==
    /\ InPropagation("actor")
    /\ \E how \in {"assertion", "bad_variant_access"} : fitOutcome' = how
    /\ fitPc' = "aborted"
    /\ result' = NewResult
    /\ navPos' = 0
    /\ externalSurfaces' = {}
    /\ stepperPath' = 0
    /\ UNCHANGED <<propPhase, bsFailures, fitLoopVars>>
    /\ UNCHANGED nonFitVars

(***************************************************************************)
(* Gx2Fitter::fit                                                          *)
(***************************************************************************)
\* proj * collectorJacobians[iMeas]: rows loc0 and loc1
ProjectedJacobian(J) == [i \in MeasIdx |-> [j \in BoundIdx |-> J[i][j]]]

\* the double sum of t[i][j] over the measurement indices
Sum2(t) == SumOver([i \in MeasIdx |-> SumOver(t[i], 2)], 2)

Chi2Meas(ri, w) == Sum2([i \in MeasIdx |-> [j \in MeasIdx |-> ri[i] * w[i][j] * ri[j]]])

AMatrixMeas(pj, w) ==
    [a \in BoundIdx |-> [b \in BoundIdx |->
        Sum2([i \in MeasIdx |-> [j \in MeasIdx |-> pj[i][a] * w[i][j] * pj[j][b]]])]]

\* a gradient that leaves the residual out
BVectorMeasOfJacobian(pj, w, ri) ==
    [a \in BoundIdx |->
        Sum2([i \in MeasIdx |-> [j \in MeasIdx |-> pj[i][a] * w[i][j]]])]

BVectorMeas(pj, w, ri) ==
    [a \in BoundIdx |->
        Sum2([i \in MeasIdx |-> [j \in MeasIdx |-> pj[i][a] * w[i][j] * ri[j]]])]

RECURSIVE AccumulateOnStale(_, _)
RECURSIVE Accumulate(_, _)

\* the sums are not reset before the measurements are added
AccumulateOnStale(res, n) ==
    IF n = 0
    THEN [chi2sum |-> 1, aMatrix |-> IdentityMatrix, bVector |-> [i \in BoundIdx |-> 1]]
    ELSE LET acc == AccumulateOnStale(res, n - 1)
             ri == res.collectorResiduals[n]
             coviInv == Inverse2(res.collectorCovariance[n])
             projectedJacobian == ProjectedJacobian(res.collectorJacobians[n])
         IN  [chi2sum |-> acc.chi2sum + Chi2Meas(ri, coviInv),
              aMatrix |-> MatAdd(acc.aMatrix, AMatrixMeas(projectedJacobian, coviInv)),
              bVector |-> VecAdd(acc.bVector, BVectorMeas(projectedJacobian, coviInv, ri))]

\* lines 662-698: the three sums over the first n collected measurements
Accumulate(res, n) ==
    IF n = 0
    THEN [chi2sum |-> 0, aMatrix |-> ZeroMatrix, bVector |-> [i \in BoundIdx |-> 0]]
    ELSE LET acc == Accumulate(res, n - 1)
             ri == res.collectorResiduals[n]
             coviInv == Inverse2(res.collectorCovariance[n])
             projectedJacobian == ProjectedJacobian(res.collectorJacobians[n])
         IN  [chi2sum |-> acc.chi2sum + Chi2Meas(ri, coviInv),
              aMatrix |-> MatAdd(acc.aMatrix, AMatrixMeas(projectedJacobian, coviInv)),
              bVector |-> VecAdd(acc.bVector, BVectorMeas(projectedJacobian, coviInv, ri))]

\* the elements of a set of indices in increasing order
SortedSeq(S) ==
    [k \in 1 .. Cardinality(S) |->
        CHOOSE x \in S : Cardinality({y \in S : y < x}) = k - 1]

PrincipalMinor(A, S) == DetOf(A, SortedSeq(S), SortedSeq(S))

\* the columns a column-pivoting decomposition keeps: the column that adds most
\* is taken next, until the remaining ones depend on those taken
RECURSIVE PivotColumns(_, _)
PivotColumns(A, S) ==
    LET cand == {j \in ReducedIdx \ S : PrincipalMinor(A, S \cup {j}) # 0}
    IN  IF cand = {} THEN S
        ELSE LET m == [j \in cand |-> Abs(PrincipalMinor(A, S \cup {j}))]
                 best == CHOOSE j \in cand :
                             \A k \in cand : m[j] > m[k] \/ (m[j] = m[k] /\ j <= k)
             IN  PivotColumns(A, S \cup {best})

ReplaceColumn(A, c, b) ==
    [i \in DOMAIN A |-> [j \in DOMAIN A[i] |-> IF j = c THEN b[i] ELSE A[i][j]]]

\* colPivHouseholderQr().solve() of the top-left corner: the basic solution,
\* zero in the columns the pivoting dropped
SolveReduced(A, b) ==
    LET S == PivotColumns(A, {})
        q == SortedSeq(S)
        det == DetOf(A, q, q)
    IN  [i \in ReducedIdx |->
            IF i \in S THEN Quot(DetOf(ReplaceColumn(A, i, b), q, q), det) ELSE 0]

\* an update that is filled beyond the reduced size
DeltaFromReducedFull(x, b) ==
    [i \in BoundIdx |-> IF i < reducedMatrixSize THEN x[i] ELSE b[i]]

\* lines 701, 707-709: zero, then the first reducedMatrixSize entries
DeltaFromReduced(x, b) ==
    [i \in BoundIdx |-> IF i < reducedMatrixSize THEN x[i] ELSE 0]

\* a loop that stops one iteration short
LoopConditionShort(n, nUpdateMax) == n + 1 < nUpdateMax

\* line 625
LoopCondition(n, nUpdateMax) == n < nUpdateMax

Cofactor(A, i, j) ==
    (IF (i + j) % 2 = 0 THEN 1 ELSE -1)
        * DetOf(A, Without(ReducedSeq, i + 1), Without(ReducedSeq, j + 1))

ReducedDeterminant(A) == DetOf(A, ReducedSeq, ReducedSeq)

\* BoundMatrix::Identity(), as the quotient num / den
IdentityCovariance == [num |-> IdentityMatrix, den |-> 1]

\* lines 726-737: the covariance, exactly, as the quotient num / den
FullCovariancePredicted(A) ==
    LET det == ReducedDeterminant(A)
    IN  IF det # 0
        THEN [num |-> [i \in BoundIdx |-> [j \in BoundIdx |->
                        IF i < reducedMatrixSize /\ j < reducedMatrixSize
                        THEN Cofactor(A, j, i)
                        ELSE IF i = j THEN det ELSE 0]],
              den |-> det]
        ELSE IdentityCovariance

FitInit ==
    /\ fitPc = "start"
    /\ fitInput \in FitInputs
    /\ inputMeasurements = <<>>
    /\ params = fitInput.sParameters
    /\ deltaParams = [i \in BoundIdx |-> 0]
    /\ chi2sum = 0
    /\ aMatrix = ZeroMatrix
    /\ bVector = [i \in BoundIdx |-> 0]
    /\ nUpdate = 0
    /\ result = NewResult
    /\ propPhase = "none"
    /\ navPos = 0
    /\ externalSurfaces = {}
    /\ stepperPath = 0
    /\ trackStateContainer = <<>>
    /\ tracks = <<>>
    /\ bsFailures = 0
    /\ fitOutcome = "none"

\* lines 586-616
FitPreprocess ==
    /\ fitPc = "start"
    /\ inputMeasurements' = EmplaceAll(fitInput.sourceLinks, Len(fitInput.sourceLinks))
    /\ params' = fitInput.sParameters
    /\ deltaParams' = [i \in BoundIdx |-> 0]
    /\ chi2sum' = 0
    /\ aMatrix' = ZeroMatrix
    /\ bVector' = [i \in BoundIdx |-> 0]
    /\ nUpdate' = 0
    /\ fitPc' = "loop"
    /\ UNCHANGED <<fitInput, result, propPhase, navPos, externalSurfaces, stepperPath,
                   trackStateContainer, tracks, bsFailures, fitOutcome>>
    /\ UNCHANGED nonFitVars

\* the iteration starts without applying the update
FitIterationBeginNoUpdate ==
    /\ fitPc = "loop"
    /\ LoopCondition(nUpdate, fitInput.nUpdateMax)
    /\ params' = params
    /\ result' = NewResult
    /\ navPos' = 0
    /\ externalSurfaces' = {}
    /\ stepperPath' = 0
    /\ propPhase' = "actor"
    /\ fitPc' = "propagate"
    /\ UNCHANGED <<fitInput, inputMeasurements, deltaParams, chi2sum, aMatrix, bVector,
                   nUpdate, trackStateContainer, tracks, bsFailures, fitOutcome>>
    /\ UNCHANGED nonFitVars

\* lines 625-652: the update is applied, a fresh result is made, propagate starts
FitIterationBegin ==
    /\ fitPc = "loop"
    /\ LoopCondition(nUpdate, fitInput.nUpdateMax)
    /\ params' = VecAdd(params, deltaParams)
    /\ result' = NewResult
    /\ navPos' = 0
    /\ externalSurfaces' = {}
    /\ stepperPath' = 0
    /\ propPhase' = "actor"
    /\ fitPc' = "propagate"
    /\ UNCHANGED <<fitInput, inputMeasurements, deltaParams, chi2sum, aMatrix, bVector,
                   nUpdate, trackStateContainer, tracks, bsFailures, fitOutcome>>
    /\ UNCHANGED nonFitVars

\* lines 656-721: the sums over what the propagation collected, and the solve
FitIterationEnd ==
    /\ fitPc = "propagated"
    /\ LET acc == Accumulate(result, Len(result.collectorResiduals))
       IN  /\ chi2sum' = acc.chi2sum
           /\ aMatrix' = acc.aMatrix
           /\ bVector' = acc.bVector
           /\ deltaParams' = DeltaFromReduced(SolveReduced(acc.aMatrix, acc.bVector),
                                              acc.bVector)
    /\ nUpdate' = nUpdate + 1
    /\ fitPc' = "loop"
    /\ propPhase' = "none"
    /\ UNCHANGED <<fitInput, inputMeasurements, params, result, navPos, externalSurfaces,
                   stepperPath, trackStateContainer, tracks, bsFailures, fitOutcome>>
    /\ UNCHANGED nonFitVars

\* the number of track states from index idx back to the no-parent sentinel
RECURSIVE ChainLength(_, _)
ChainLength(container, idx) ==
    IF idx = kInvalid \/ idx >= Len(container) THEN 0
    ELSE 1 + ChainLength(container, container[idx + 1].parent)

\* calculateTrackQuantities(track): the counts over the track states that the
\* tip index of the track leads to
CalculateTrackQuantities(track, container) ==
    [track EXCEPT !.nMeasurements = ChainLength(container, track.tipIndex),
                  !.nHoles = 0]

\* lines 722-751: the covariance and the track; tip index, reference surface and
\* the counts are not set
FitFinalize ==
    /\ fitPc = "loop"
    /\ ~LoopCondition(nUpdate, fitInput.nUpdateMax)
    /\ tracks' = Append(tracks,
                        CalculateTrackQuantities(
                            [parameters |-> params,
                             covariance |-> FullCovariancePredicted(aMatrix),
                             tipIndex |-> kInvalid,
                             hasReferenceSurface |-> FALSE,
                             nMeasurements |-> 0,
                             nHoles |-> 0],
                            trackStateContainer))
    /\ fitOutcome' = "track"
    /\ fitPc' = "done"
    /\ UNCHANGED <<fitInput, inputMeasurements, params, deltaParams, chi2sum, aMatrix,
                   bVector, nUpdate, result, propPhase, navPos, externalSurfaces,
                   stepperPath, trackStateContainer, bsFailures>>
    /\ UNCHANGED nonFitVars

FitNext ==
    \/ FitPreprocess
    \/ FitIterationBegin
    \/ ActorNoSurface
    \/ ActorPassiveSurface
    \/ ActorBoundStateFails
    \/ ActorCalibratorThrows
    \/ ActorMeasurement
    \/ AborterCheck
    \/ ActorPostCall
    \/ PropagationFails
    \/ FitIterationEnd
    \/ FitFinalize

\* no fit is running
FitIdle ==
    /\ fitPc = "idle"
    /\ fitInput = <<>>
    /\ inputMeasurements = <<>>
    /\ params = <<>>
    /\ deltaParams = <<>>
    /\ chi2sum = 0
    /\ aMatrix = <<>>
    /\ bVector = <<>>
    /\ nUpdate = 0
    /\ result = <<>>
    /\ propPhase = "none"
    /\ navPos = 0
    /\ externalSurfaces = {}
    /\ stepperPath = 0
    /\ trackStateContainer = <<>>
    /\ tracks = <<>>
    /\ bsFailures = 0
    /\ fitOutcome = "none"

(***************************************************************************)
(* GaussianGridTrackDensity: the density queries getMaxZPosition and       *)
(* getMaxZPositionAndWidth on a main grid g, a function on 0 .. n - 1.     *)
(***************************************************************************)
\* the length of the queried grid
QueryGridSize == 8

QueryBins == 0 .. (QueryGridSize - 1)

\* the densities of the bins of the queried grids: empty, and two heights that
\* are within the relative tolerance of each other
DensityValues == {0, 2, 3}

\* Config::maxRelativeDensityDev as the quotient num / den
maxRelativeDensityDevNum == 1

maxRelativeDensityDevDen == 2

\* the number of density maxima that the highest-sum policy looks at
MaxCandidates == 3

\* mainGrid.isZero() that never holds
IsZeroNever(g) == FALSE

\* mainGrid.isZero()
IsZero(g) == \A b \in DOMAIN g : g[b] = 0

\* mainGrid.maxCoeff(&zbin): the first bin with the largest density
MaxCoeff(g) ==
    CHOOSE b \in DOMAIN g :
        /\ \A c \in DOMAIN g : g[c] <= g[b]
        /\ \A c \in DOMAIN g : c < b => g[c] < g[b]

\* the z of the centre of bin zbin: zMin + (zbin + 0.5) * binSize
BinCentre(zbin, n) == (zbin * binSize + binSize \div 2) - (n * binSize) \div 2

\* a density sum that leaves the neighbours out
GetDensitySumCentreOnly(g, pos) == g[pos]

\* getDensitySum: the bin and its two neighbours, one-sided at the ends
GetDensitySum(g, pos) ==
    g[pos] + (IF pos - 1 \in DOMAIN g THEN g[pos - 1] ELSE 0)
           + (IF pos + 1 \in DOMAIN g THEN g[pos + 1] ELSE 0)

\* the first k density maxima: the highest bin, then the highest of the rest
RECURSIVE FirstMaxima(_, _)
FirstMaxima(g, k) ==
    IF k = 0 THEN <<>>
    ELSE LET zbin == MaxCoeff(g)
         IN  <<zbin>> \o FirstMaxima([g EXCEPT ![zbin] = 0], k - 1)

\* a density that deviates from the main maximum by less than the tolerance
WithinDeviation(firstDensity, density) ==
    (firstDensity - density) * maxRelativeDensityDevDen
        < firstDensity * maxRelativeDensityDevNum

\* the maxima that take part: the main maximum and those close to it
KeptMaxima(g) ==
    LET maxima == FirstMaxima(g, MaxCandidates)
    IN  SelectSeq(maxima, LAMBDA b : b = maxima[1] \/ WithinDeviation(g[maxima[1]], g[b]))

\* getHighestSumZPosition: of the kept maxima the one with the highest density
\* sum, the earlier one of equal sums
GetHighestSumZPosition(g) ==
    LET kept == KeptMaxima(g)
        best == CHOOSE i \in 1 .. Len(kept) :
                    /\ \A j \in 1 .. Len(kept) :
                          GetDensitySum(g, kept[j]) <= GetDensitySum(g, kept[i])
                    /\ \A j \in 1 .. (i - 1) :
                          GetDensitySum(g, kept[j]) < GetDensitySum(g, kept[i])
    IN  kept[best]

\* the bin of the peak, by the configured policy
PeakBin(g, highestSum) ==
    IF highestSum THEN GetHighestSumZPosition(g) ELSE MaxCoeff(g)

QueryFailure(error, read) == [ok |-> FALSE, error |-> error, binsRead |-> read]

\* getMaxZPosition
GetMaxZPosition(g, highestSum) ==
    IF IsZero(g) THEN QueryFailure("EmptyGrid", DOMAIN g)
    ELSE LET zbin == PeakBin(g, highestSum)
         IN  [ok |-> TRUE, zbin |-> zbin, z |-> BinCentre(zbin, Cardinality(DOMAIN g)),
              binsRead |-> DOMAIN g]

\* the first bin from zbin in direction dir whose density is at most half of
\* the peak's, or the index beyond the grid when there is none
RECURSIVE HalfMaximumBin(_, _, _, _)
HalfMaximumBin(g, zbin, b, dir) ==
    IF b \notin DOMAIN g THEN b
    ELSE IF 2 * g[b] <= g[zbin] THEN b
    ELSE HalfMaximumBin(g, zbin, b + dir, dir)

\* the distance, in halves of bins scaled by binSize, from bin hm back to the
\* crossing of half the peak density, by linear interpolation between the bins
CrossingOffset(g, zbin, hm, dir) ==
    Quot((g[zbin] - 2 * g[hm]) * binSize, 2 * (g[hm - dir] - g[hm]))

\* estimateSeedWidth: the full width at half maximum around the peak, as a
\* Gaussian width
EstimateSeedWidth(g, zbin) ==
    IF IsZero(g) THEN QueryFailure("EmptyGrid", DOMAIN g)
    ELSE IF zbin = 0 \/ zbin = Cardinality(DOMAIN g) - 1
    THEN QueryFailure("EdgeOfGrid", {zbin})
    ELSE LET rhmBin == HalfMaximumBin(g, zbin, zbin + 1, 1)
             lhmBin == HalfMaximumBin(g, zbin, zbin - 1, -1)
             read == {b \in DOMAIN g : lhmBin <= b /\ b <= rhmBin}
         IN  IF rhmBin \notin DOMAIN g \/ lhmBin \notin DOMAIN g
             THEN QueryFailure("EdgeOfGrid", read)
             ELSE LET fwhm == (rhmBin - lhmBin) * binSize
                                  - CrossingOffset(g, zbin, rhmBin, 1)
                                  - CrossingOffset(g, zbin, lhmBin, -1)
                  IN  [ok |-> TRUE, width |-> Quot(fwhm * 1000, 2355), binsRead |-> read]

\* getMaxZPositionAndWidth
GetMaxZPositionAndWidth(g, highestSum) ==
    LET maxZRes == GetMaxZPosition(g, highestSum)
    IN  IF ~maxZRes.ok THEN maxZRes
        ELSE LET widthRes == EstimateSeedWidth(g, maxZRes.zbin)
             IN  IF ~widthRes.ok
                 THEN QueryFailure(widthRes.error, maxZRes.binsRead \cup widthRes.binsRead)
                 ELSE [ok |-> TRUE, zbin |-> maxZRes.zbin, z |-> maxZRes.z,
                       width |-> widthRes.width,
                       binsRead |-> maxZRes.binsRead \cup widthRes.binsRead]

NoQueryResult == [ok |-> FALSE, error |-> "none", binsRead |-> {}]

QueryInit ==
    /\ queryGrid \in [QueryBins -> DensityValues]
    /\ useHighestSumZPosition \in BOOLEAN
    /\ queryOp = "none"
    /\ queryResult = NoQueryResult

QueryMaxZPosition ==
    /\ queryOp = "none"
    /\ queryOp' = "getMaxZPosition"
    /\ queryResult' = GetMaxZPosition(queryGrid, useHighestSumZPosition)
    /\ UNCHANGED <<queryGrid, useHighestSumZPosition>>
    /\ UNCHANGED nonQueryVars

QueryMaxZPositionAndWidth ==
    /\ queryOp = "none"
    /\ queryOp' = "getMaxZPositionAndWidth"
    /\ queryResult' = GetMaxZPositionAndWidth(queryGrid, useHighestSumZPosition)
    /\ UNCHANGED <<queryGrid, useHighestSumZPosition>>
    /\ UNCHANGED nonQueryVars

QueryNext == QueryMaxZPosition \/ QueryMaxZPositionAndWidth

\* no query is made
QueryIdle ==
    /\ queryGrid = <<>>
    /\ useHighestSumZPosition = FALSE
    /\ queryOp = "none"
    /\ queryResult = NoQueryResult

(***************************************************************************)
(* The default delegates of Gx2FitterExtensions: voidKalmanUpdater and     *)
(* voidOutlierFinder, called on one track state.                           *)
(***************************************************************************)
\* the parameter vectors a track state may hold
TrackStateVectors ==
    {[i \in BoundIdx |-> v * (i + 1)] : v \in {0, 1, 2}}

\* the covariances a track state may hold
TrackStateCovariances ==
    {[i \in BoundIdx |-> [j \in BoundIdx |-> IF i = j THEN d ELSE o]] :
        <<d, o>> \in {<<1, 0>>, <<2, 0>>, <<2, 1>>}}

\* only the filtered parameters are set
VoidKalmanUpdaterParametersOnly(ts) ==
    [ts EXCEPT !.filtered = ts.predicted]

\* trackState.filtered() = trackState.predicted();
\* trackState.filteredCovariance() = trackState.predictedCovariance();
VoidKalmanUpdater(ts) ==
    [ts EXCEPT !.filtered = ts.predicted,
               !.filteredCovariance = ts.predictedCovariance]

\* return false;
VoidOutlierFinder(ts) == FALSE

NoOutlierResult == [called |-> FALSE, value |-> FALSE]

DelegateInit ==
    /\ trackState \in [predicted : TrackStateVectors,
                       predictedCovariance : TrackStateCovariances,
                       filtered : TrackStateVectors,
                       filteredCovariance : TrackStateCovariances]
    /\ delegateOp = "none"
    /\ updaterResult = "none"
    /\ outlierResult = NoOutlierResult

\* extensions.updater(gctx, trackState, direction, logger)
CallUpdater ==
    /\ trackState' = VoidKalmanUpdater(trackState)
    /\ updaterResult' = "success"
    /\ delegateOp' = "updater"
    /\ UNCHANGED outlierResult
    /\ UNCHANGED nonDelegateVars

\* extensions.outlierFinder(trackState)
CallOutlierFinder ==
    /\ outlierResult' = [called |-> TRUE, value |-> VoidOutlierFinder(trackState)]
    /\ delegateOp' = "outlierFinder"
    /\ UNCHANGED <<trackState, updaterResult>>
    /\ UNCHANGED nonDelegateVars

DelegateNext == CallUpdater \/ CallOutlierFinder

\* no delegate is called
DelegateIdle ==
    /\ trackState = <<>>
    /\ delegateOp = "none"
    /\ updaterResult = "none"
    /\ outlierResult = NoOutlierResult

(***************************************************************************)
(* Curvilinear track parameters: the test cases NeutralConstruct,          *)
(* ChargedConstruct and AnyConstruct construct 'params' without a          *)
(* covariance and then reassign it with one.                               *)
(***************************************************************************)
\* std::nullopt
NoCovariance == [hasValue |-> FALSE]

SomeCovariance(c) == [hasValue |-> TRUE, value |-> c]

\* the particle hypotheses and the charges the test cases give them
ChargesOf(hypothesis) ==
    CASE hypothesis = "Neutral" -> {0}
      [] hypothesis = "SinglyCharged" -> {-1, 1}
      [] hypothesis = "AnyCharge" -> {-1, 0, 1}

Hypotheses == {"Neutral", "SinglyCharged", "AnyCharge"}

\* the data sets of the test cases, cut down
CurvInputs ==
    {[hypothesis |-> h, pos4 |-> <<x, 0, 0, t>>, dir |-> <<0, 0, 1>>,
      p |-> pp, q |-> q, cov |-> c] :
        h \in Hypotheses, x \in {-1, 1}, t \in {0, 2}, pp \in {1, 2},
        q \in {-1, 0, 1}, c \in TrackStateCovariances}

ValidCurvInputs == {in \in CurvInputs : in.q \in ChargesOf(in.hypothesis)}

\* const auto qOverP = (q != 0) ? (q / p) : (1 / p), as the quotient num / den
QOverPOf(p, q) == [num |-> IF q # 0 THEN q ELSE 1, den |-> p]

\* the constructor stores no covariance at all
GenericCurvilinearTrackParametersNoCov(hypothesis, pos4, dir, qOverP, cov) ==
    [hypothesis |-> hypothesis, fourPosition |-> pos4, direction |-> dir,
     qOverP |-> qOverP, covariance |-> NoCovariance]

\* GenericCurvilinearTrackParameters(pos4, dir, qOverP, cov = std::nullopt)
GenericCurvilinearTrackParameters(hypothesis, pos4, dir, qOverP, cov) ==
    [hypothesis |-> hypothesis, fourPosition |-> pos4, direction |-> dir,
     qOverP |-> qOverP, covariance |-> cov]

NoCurvParams == <<>>

CurvInit ==
    /\ curvInput \in ValidCurvInputs
    /\ curvPc = "start"
    /\ curvParams = NoCurvParams

\* ...CurvilinearTrackParameters params(pos4, dir, q / p);
CurvConstruct ==
    /\ curvPc = "start"
    /\ curvParams' = GenericCurvilinearTrackParameters(
                         curvInput.hypothesis, curvInput.pos4, curvInput.dir,
                         QOverPOf(curvInput.p, curvInput.q), NoCovariance)
    /\ curvPc' = "constructed"
    /\ UNCHANGED curvInput
    /\ UNCHANGED nonCurvVars

\* params = ...CurvilinearTrackParameters(pos4, dir, q / p, cov);
CurvReassign ==
    /\ curvPc = "constructed"
    /\ curvParams' = GenericCurvilinearTrackParameters(
                         curvInput.hypothesis, curvInput.pos4, curvInput.dir,
                         QOverPOf(curvInput.p, curvInput.q),
                         SomeCovariance(curvInput.cov))
    /\ curvPc' = "reassigned"
    /\ UNCHANGED curvInput
    /\ UNCHANGED nonCurvVars

CurvNext == CurvConstruct \/ CurvReassign

\* no test case runs
CurvIdle ==
    /\ curvPc = "idle"
    /\ curvInput = <<>>
    /\ curvParams = NoCurvParams

(***************************************************************************)
(* Specifications: each one runs one component and leaves the others idle. *)
(***************************************************************************)
LinIdle ==
    /\ linPc = "idle"
    /\ linInput = [vec |-> [c \in LinIdx |-> 0], hasCov |-> FALSE]
    /\ linResult = [ok |-> TRUE, endParameters |-> NoEndParameters]
    /\ endParams = NoEndParameters
    /\ perigeeParams = ZeroBound
    /\ paramVec = [c \in LinIdx |-> 0]
    /\ completeJacobian = ZeroJacobian
    /\ linI = 0
    /\ wiggledVecs = <<>>
    /\ newPerigees = <<>>
    /\ pOptionsDirection = "Forward"
    /\ linErrorLogged = FALSE
    /\ linReadMissing = FALSE
    /\ linFailures = 0
    /\ linOutcome = "none"
    /\ linearizedTrack = NoLinearizedTrack

GridIdle ==
    /\ mainGrid = [b \in MainBins |-> 0]
    /\ trackCache = <<>>
    /\ gridOp = "idle"
    /\ preAddGrid = [b \in MainBins |-> 0]
    /\ lastAdded = [zBin |-> 0, trkGrid |-> [i \in TrkBins |-> 0]]
    /\ gridSteps = 0

OtherIdle == DelegateIdle /\ CurvIdle

GridSpecInit == GridInit /\ LinIdle /\ FitIdle /\ QueryIdle /\ OtherIdle

GridSpec == GridSpecInit /\ [][GridNext]_vars

LinSpecInit == LinInit /\ GridIdle /\ FitIdle /\ QueryIdle /\ OtherIdle

LinSpec == LinSpecInit /\ [][LinNext]_vars

QuerySpecInit == QueryInit /\ GridIdle /\ LinIdle /\ FitIdle /\ OtherIdle

QuerySpec == QuerySpecInit /\ [][QueryNext]_vars

Init == FitInit /\ GridIdle /\ LinIdle /\ QueryIdle /\ OtherIdle

Next == FitNext

DelegateSpecInit ==
    DelegateInit /\ GridIdle /\ LinIdle /\ FitIdle /\ QueryIdle /\ CurvIdle

DelegateSpec == DelegateSpecInit /\ [][DelegateNext]_vars

CurvSpecInit ==
    CurvInit /\ GridIdle /\ LinIdle /\ FitIdle /\ QueryIdle /\ DelegateIdle

CurvSpec == CurvSpecInit /\ [][CurvNext]_vars

Spec == Init /\ [][Next]_vars

LinTerminal == {"done", "aborted", "threw"}

\* C3: linearizeTrack returns a failure result (and no LinearizedTrack) whenever
\* the propagation to the PCA fails and whenever the propagated end parameters
\* carry no covariance, and reads neither missing end parameters nor a missing
\* covariance.
C3_FailureIsReturned ==
    (linPc \in LinTerminal /\ (~linResult.ok \/ ~endParams.hasCov)) =>
        (linOutcome = "failure" /\ ~linReadMissing)

\* C4: when linearizeTrack returns, every column i of the Jacobian has in the
\* row of the bound parameter phi the periodic difference (range 2 pi) of the
\* perturbed and the unperturbed perigee phi over delta, and in every other
\* row the plain difference over delta (stated for the calls all of whose
\* propagations succeeded and whose wiggled theta stayed in range).
C4_PhiRowIsPeriodicDifference ==
    (linPc = "done" /\ linFailures = 0 /\ ~linErrorLogged) =>
        \A i \in LinIdx :
            /\ completeJacobian[eBoundPhi][i] =
                   Quot(DifferencePeriodic(newPerigees[i + 1][eBoundPhi],
                                           perigeeParams[eBoundPhi], TwoPi), Delta)
            /\ \A r \in BoundIdx \ {eBoundPhi} :
                   completeJacobian[r][i] =
                       Quot(newPerigees[i + 1][r] - perigeeParams[r], Delta)

\* C5: if theta at the PCA plus delta leaves [0, pi], linearizeTrack hands a
\* configuration error to its caller and returns no LinearizedTrack computed
\* from the out-of-range theta.
C5_ThetaOutOfRangeIsAnError ==
    (linPc \in {"wiggle", "done"} /\ paramVec[eLinTheta] + Delta > Pi) =>
        (linOutcome = "ConfigurationError" /\ linPc # "done")

\* the bins the window of the last added track covers
InLastWindow(b) == Abs(b - lastAdded.zBin) <= TrkHalfWidth

\* the density the last added track has in bin b of the main grid
LastTrackAt(b) == lastAdded.trkGrid[b - lastAdded.zBin + TrkHalfWidth]

\* C1 (as stated): addTrack followed immediately by removeTrackGridFromMainGrid
\* with the returned (binIndex, trackGrid) leaves every bin of the main grid
\* equal to its value before the add.
C1_AddRemoveRestoresExactly ==
    gridOp = "removeLast" => mainGrid = preAddGrid

\* C1 (amended): after addTrack and the immediate removal of the returned pair,
\* every bin outside the track's window has exactly its value before the add,
\* and every bin inside it differs from that value by at most one float
\* spacing at the larger of the old value and the sum; also when the window
\* overhangs the first or last bin.
C1_AddRemoveRestoresWithinRounding ==
    gridOp = "removeLast" =>
        \A b \in MainBins :
            IF InLastWindow(b)
            THEN Abs(mainGrid[b] - preAddGrid[b])
                     <= Max(Ulp(preAddGrid[b]), Ulp(preAddGrid[b] + LastTrackAt(b)))
            ELSE mainGrid[b] = preAddGrid[b]

\* an add on a non-empty grid whose window overhangs an end of the main grid
\* has been removed again, and a bin came back changed by rounding
C1_Witness ==
    /\ gridOp = "removeLast"
    /\ lastAdded.zBin \in {0, mainGridSize - 1}
    /\ \E b \in MainBins : preAddGrid[b] # 0 /\ InLastWindow(b)
    /\ mainGrid # preAddGrid

FitRunning == fitPc \notin {"idle", "start"}

\* the track fit returned, if it returned one
ReturnedTracks == {tracks[k] : k \in 1 .. Len(tracks)}

\* C2: when the reduced information matrix is singular at the end of an
\* iteration loop that ran, fit reports a failure and returns no track that carries the
\* identity placeholder as its covariance.
C2_SingularMatrixIsAFitFailure ==
    (fitPc = "done" /\ fitInput.nUpdateMax > 0 /\ ReducedDeterminant(aMatrix) = 0) =>
        (fitOutcome = "failure"
            /\ \A t \in ReturnedTracks : t.covariance # IdentityCovariance)

\* an actor step that records a measurement
RecordsMeasurement ==
    /\ InPropagation("actor")
    /\ Len(result'.collectorResiduals) = Len(result.collectorResiduals) + 1

\* C6: every actor step at a measurement surface appends one entry to the shared
\* trajectory container, with the entry of the previous measurement surface as
\* its parent, and leaves the entries that were there as they were.
C6_ActorAppendsChainedEntry ==
    [][RecordsMeasurement =>
        /\ Len(trackStateContainer') = Len(trackStateContainer) + 1
        /\ SubSeq(trackStateContainer', 1, Len(trackStateContainer)) = trackStateContainer
        /\ trackStateContainer'[Len(trackStateContainer')].parent = result.lastTrackIndex
        /\ result'.lastTrackIndex = Len(trackStateContainer') - 1]_vars

C8_SurfaceLimitStopsPropagation ==
    (fitPc \in {"propagate", "propagated"}) =>
        /\ (result.surfaceCount > SurfaceLimit => result.finished)
        /\ result.surfaceCount <= SurfaceLimit + 1
        /\ Len(result.collectorResiduals) <= SurfaceLimit + 1

\* an actor step in which boundState fails
BoundStateFailureStep == bsFailures' = bsFailures + 1

\* C9: an actor step in which boundState fails records no residual, covariance
\* or Jacobian, marks the result neither failed nor finished and does not end
\* the fit: the propagation goes on with the aborter, which does not stop it,
\* and the sums of the iteration are taken over what the result holds.
C9_BoundStateFailureAbortsOnlyTheStep ==
    /\ [][BoundStateFailureStep =>
            /\ result'.collectorResiduals = result.collectorResiduals
            /\ result'.collectorCovariance = result.collectorCovariance
            /\ result'.collectorJacobians = result.collectorJacobians
            /\ result'.jacobianFromStart = result.jacobianFromStart
            /\ result'.resultOk /\ result'.finished = result.finished
            /\ ~AborterSaysStop(result')
            /\ fitPc' = "propagate" /\ propPhase' = "aborter"
            /\ fitOutcome' = "none"]_vars
    /\ []((fitPc = "loop" /\ nUpdate > 0) =>
            /\ Len(result.collectorResiduals) = Len(result.collectorJacobians)
            /\ aMatrix = Accumulate(result, Len(result.collectorResiduals)).aMatrix
            /\ bVector = Accumulate(result, Len(result.collectorResiduals)).bVector)

\* an iteration in which one of two measurement surfaces failed has ended, and
\* the sums hold the contribution of the other one
C9_Witness ==
    /\ fitPc = "loop"
    /\ nUpdate > 0
    /\ bsFailures > 0
    /\ Cardinality(DOMAIN inputMeasurements) = 2
    /\ result.surfaceCount >= 2
    /\ ~result.finished
    /\ Len(result.collectorResiduals) = 1
    /\ aMatrix # ZeroMatrix
    /\ fitOutcome = "none"

\* C10: the update is zero outside the first reducedMatrixSize dimensions, and
\* the time and q/p of the working parameters are those of the start parameters.
C10_UpdateOnlyInReducedDimensions ==
    FitRunning =>
        \A i \in BoundIdx \ ReducedIdx :
            deltaParams[i] = 0 /\ params[i] = fitInput.sParameters[i]

\* an update has been applied although the gradient has a q/p component
C10_Witness ==
    /\ fitPc = "propagate"
    /\ nUpdate >= 1
    /\ bVector[eBoundQOverP] # 0
    /\ deltaParams # [i \in BoundIdx |-> 0]
    /\ params = VecAdd(fitInput.sParameters, deltaParams)
    /\ params[eBoundQOverP] # 0
    /\ params[eBoundTime] # 0

\* C11: a fit that returns has appended exactly one track record, which carries
\* the final parameters, the covariance, the reference surface and the state
\* counts of the fit: the tip index and the number of measurements.
C11_TrackRecordIsComplete ==
    (fitPc = "done" /\ Len(result.collectorResiduals) > 0) =>
        /\ Len(tracks) = 1
        /\ tracks[1].parameters = params
        /\ tracks[1].covariance = FullCovariancePredicted(aMatrix)
        /\ tracks[1].hasReferenceSurface
        /\ tracks[1].tipIndex # kInvalid
        /\ tracks[1].nMeasurements = Len(result.collectorResiduals)

ZeroVector == [i \in BoundIdx |-> 0]

\* every residual that the propagation recorded is zero
ZeroResiduals(res) ==
    \A k \in 1 .. Len(res.collectorResiduals) :
        \A i \in MeasIdx : res.collectorResiduals[k][i] = 0

\* C12: an iteration whose recorded residuals are all zero ends with a zero
\* chi-square, a zero gradient and a zero update, and the next iteration starts
\* with the working parameters unchanged.
C12_ZeroResidualIsAFixedPoint ==
    /\ []((fitPc = "loop" /\ nUpdate > 0 /\ ZeroResiduals(result)) =>
            (chi2sum = 0 /\ bVector = ZeroVector /\ deltaParams = ZeroVector))
    /\ [][(fitPc = "loop" /\ nUpdate > 0 /\ ZeroResiduals(result)
            /\ fitPc' = "propagate") => params' = params]_vars

\* a further iteration has begun after one with measurements and no residual
C12_Witness ==
    /\ fitPc = "propagate"
    /\ nUpdate >= 1
    /\ aMatrix # ZeroMatrix
    /\ chi2sum = 0
    /\ bVector = ZeroVector
    /\ deltaParams = ZeroVector
    /\ params = fitInput.sParameters

PositionPart(t) == MulR(t.positionJacobian, t.positionAtPCA, eLinPosSize)

MomentumPart(t) == MulR(t.momentumJacobian, t.momentumAtPCA, eLinMomSize)

\* positionJacobian * pca + momentumJacobian * momentumAtPCA + constTerm
Reconstructed(t) ==
    [b \in BoundIdx |->
        RoundF(RoundF(PositionPart(t)[b] + MomentumPart(t)[b]) + t.constTerm[b])]

\* the largest magnitude among the values of the two computations of row b
LargestMagnitude(t, b) ==
    LET p == t.parametersAtPCA[b]
        x == PositionPart(t)[b]
        y == MomentumPart(t)[b]
    IN  Max(Max(Abs(p - x), Abs(p - x - y)), Max(Abs(x + y), Abs(p)))

\* a call in which every propagation succeeded, the wiggled theta stayed in
\* range and no wiggled phi wrapped
PlainLinearization ==
    /\ linFailures = 0
    /\ ~linReadMissing
    /\ ~linErrorLogged
    /\ Abs(paramVec[eLinPhi]) + Delta < Pi

\* C13 as stated: the reconstruction from the returned Jacobians, points and
\* constant term equals the returned perigee parameters.
C13_LinearizationReconstructsExactly ==
    (linPc = "done" /\ PlainLinearization) =>
        Reconstructed(linearizedTrack) = linearizedTrack.parametersAtPCA

\* C13: the reconstruction equals the returned perigee parameters within the
\* rounding of the four additions: two spacings of the largest magnitude; and
\* the two Jacobians are the first four and the last three columns.
C13_LinearizationReconstructsWithinRounding ==
    linPc = "done" =>
        /\ \A b \in BoundIdx :
              Abs(Reconstructed(linearizedTrack)[b] - linearizedTrack.parametersAtPCA[b])
                  <= 2 * Ulp(LargestMagnitude(linearizedTrack, b))
        /\ \A b \in BoundIdx :
              /\ \A c \in 0 .. (eLinPosSize - 1) :
                    linearizedTrack.positionJacobian[b][c] = completeJacobian[b][c]
              /\ \A c \in 0 .. (eLinMomSize - 1) :
                    linearizedTrack.momentumJacobian[b][c]
                        = completeJacobian[b][eLinPosSize + c]

\* a returned track whose momentum part is not zero and whose reconstruction
\* is off by rounding
C13_Witness ==
    /\ linPc = "done"
    /\ PlainLinearization
    /\ \E b \in BoundIdx : MomentumPart(linearizedTrack)[b] # 0
    /\ Reconstructed(linearizedTrack) # linearizedTrack.parametersAtPCA

QueryGridIsZero == \A b \in QueryBins : queryGrid[b] = 0

\* C14: both queries fail with EmptyGrid on a grid whose bins are all zero, the
\* width query fails with EdgeOfGrid when the peak is the first or the last
\* bin; a failure carries no position and no width, and only bins of the grid
\* are read.
C14_EmptyAndEdgeAreTypedFailures ==
    queryOp # "none" =>
        /\ QueryGridIsZero =>
              (~queryResult.ok /\ queryResult.error = "EmptyGrid")
        /\ (queryOp = "getMaxZPositionAndWidth" /\ ~QueryGridIsZero
               /\ PeakBin(queryGrid, useHighestSumZPosition) \in {0, QueryGridSize - 1}) =>
              (~queryResult.ok /\ queryResult.error = "EdgeOfGrid")
        /\ ~queryResult.ok => DOMAIN queryResult = {"ok", "error", "binsRead"}
        /\ queryResult.binsRead \subseteq QueryBins

\* the width query failed on a grid whose peak is the last bin
C14_Witness ==
    /\ queryOp = "getMaxZPositionAndWidth"
    /\ ~QueryGridIsZero
    /\ PeakBin(queryGrid, useHighestSumZPosition) = QueryGridSize - 1
    /\ ~queryResult.ok
    /\ queryResult.error = "EdgeOfGrid"

\* the density of bin b and of its neighbours in the grid
ThreeBinSum(b) ==
    queryGrid[b] + (IF b - 1 \in QueryBins THEN queryGrid[b - 1] ELSE 0)
                 + (IF b + 1 \in QueryBins THEN queryGrid[b + 1] ELSE 0)

GlobalMaximum == CHOOSE d \in DensityValues :
                     /\ \E b \in QueryBins : queryGrid[b] = d
                     /\ \A b \in QueryBins : queryGrid[b] <= d

\* the strict local maxima of the grid whose density is within the tolerance
CloseLocalMaxima ==
    {b \in QueryBins :
        /\ b - 1 \in QueryBins => queryGrid[b - 1] < queryGrid[b]
        /\ b + 1 \in QueryBins => queryGrid[b + 1] < queryGrid[b]
        /\ WithinDeviation(GlobalMaximum, queryGrid[b])}

HighestSumQueryDone ==
    /\ queryOp = "getMaxZPosition"
    /\ useHighestSumZPosition
    /\ queryResult.ok

ComparedBins ==
    LET maxima == FirstMaxima(queryGrid, MaxCandidates)
    IN  {maxima[i] : i \in {j \in 1 .. Len(maxima) :
                              j = 1 \/ WithinDeviation(GlobalMaximum, queryGrid[maxima[j]])}}

C16_DefaultDelegatesPassThrough ==
    /\ [][delegateOp' = "updater" =>
             /\ trackState'.filtered = trackState.predicted
             /\ trackState'.filteredCovariance = trackState.predictedCovariance
             /\ trackState'.predicted = trackState.predicted
             /\ trackState'.predictedCovariance = trackState.predictedCovariance
             /\ updaterResult' = "success"]_vars
    /\ [](outlierResult.called => ~outlierResult.value)

\* both delegates were called on a track state with non-zero predicted
\* parameters and a non-diagonal predicted covariance
C16_Witness ==
    /\ delegateOp = "updater"
    /\ updaterResult = "success"
    /\ outlierResult.called
    /\ trackState.predicted[eBoundLoc0] # 0
    /\ trackState.predictedCovariance[eBoundLoc0][eBoundLoc1] # 0
    /\ trackState.filteredCovariance = trackState.predictedCovariance

\* C18: for each particle hypothesis, parameters constructed without a
\* covariance report none, and after the reassignment with a covariance they
\* report one, equal to the given matrix.
C18_CovarianceAbsentThenPresent ==
    /\ curvPc = "constructed" => ~curvParams.covariance.hasValue
    /\ curvPc = "reassigned" =>
          /\ curvParams.covariance.hasValue
          /\ curvParams.covariance.value = curvInput.cov

\* the any-charge case with a neutral particle was reassigned with a
\* non-diagonal covariance
C18_Witness ==
    /\ curvPc = "reassigned"
    /\ curvInput.hypothesis = "AnyCharge"
    /\ curvInput.q = 0
    /\ curvInput.cov[eBoundLoc0][eBoundLoc1] # 0
    /\ curvParams.covariance.hasValue

\* the actor steps onto a surface that matches a measurement, in a fit with the
\* default calibrator
DefaultCalibratorMeetsMeasurement ==
    /\ fitPc = "propagate"
    /\ fitInput.calibrator = "voidKalmanCalibrator"
    /\ navPos' = navPos + 1
    /\ navPos' \in DOMAIN inputMeasurements

AbortedByDefaultCalibrator ==
    /\ fitPc = "aborted"
    /\ fitOutcome = "runtime_error"

\* C17 as stated: with the default calibrator the fit aborts with the
\* calibrator's error at the first surface that matches a measurement.
C17_AbortsAtFirstMeasurementSurface ==
    [][DefaultCalibratorMeetsMeasurement => AbortedByDefaultCalibrator']_vars

\* C17: with the default calibrator the fit aborts with the calibrator's error
\* at the first measurement surface whose bound state is obtained (a surface
\* where boundState fails is left before the calibrator is invoked), no
\* residual is ever recorded, and the error arises only on a surface that
\* matches a measurement.
C17_AbortsAtFirstCalibratedMeasurementSurface ==
    /\ [][(DefaultCalibratorMeetsMeasurement /\ bsFailures' = bsFailures) =>
              AbortedByDefaultCalibrator']_vars
    /\ []((fitPc # "start" /\ fitInput.calibrator = "voidKalmanCalibrator") =>
              Len(result.collectorResiduals) = 0)
    /\ [](fitOutcome = "runtime_error" =>
              /\ fitInput.calibrator = "voidKalmanCalibrator"
              /\ navPos \in DOMAIN inputMeasurements
              /\ Cardinality({s \in DOMAIN inputMeasurements : s < navPos}) <= bsFailures)

\* the default calibrator threw on the second measurement surface, after the
\* bound state of the first one had failed
C17_Witness ==
    /\ AbortedByDefaultCalibrator
    /\ navPos = 2
    /\ 1 \in DOMAIN inputMeasurements
    /\ bsFailures = 1
    /\ Len(result.collectorResiduals) = 0

\* the contributions of the k-th measurement the result holds
MeasurementWeight(k) == Inverse2(result.collectorCovariance[k])

MeasurementJacobian(k) == ProjectedJacobian(result.collectorJacobians[k])

\* the measurement surfaces the propagation has reached, in the order reached
ReachedMeasurementSurfaces ==
    SortedSeq({s \in DOMAIN inputMeasurements : s <= navPos})

IterationEnded == fitPc = "loop" /\ nUpdate > 0

\* C19: when an iteration has ended, chi2sum, aMatrix and bVector are the sums
\* of the contributions of the measurements its propagation recorded: the
\* result of the propagation starts empty, it holds at most one entry per
\* measurement surface reached, computed with the parameters of the iteration,
\* and each sum is the sum over these entries, starting from zero.
C19_SumsAreOverThisIterationOnly ==
    /\ [][(fitPc = "loop" /\ fitPc' = "propagate") =>
             /\ result'.collectorResiduals = <<>>
             /\ result'.collectorCovariance = <<>>
             /\ result'.collectorJacobians = <<>>]_vars
    /\ []((fitPc \in {"propagate", "propagated", "loop"}
             /\ fitInput.calibrator = "connected") =>
             LET n == Len(result.collectorResiduals)
                 reached == ReachedMeasurementSurfaces
             IN  /\ n <= Len(reached)
                 /\ n >= Len(reached) - bsFailures
                 /\ bsFailures = 0 =>
                       \A k \in 1 .. n :
                           result.collectorResiduals[k] =
                               ResidualOf(inputMeasurements[reached[k]].calibrated,
                                          BoundParametersAt(params, reached[k])))
    /\ [](IterationEnded =>
             LET n == Len(result.collectorResiduals)
             IN  /\ chi2sum = SumTo([k \in 1 .. n |->
                                       Chi2Meas(result.collectorResiduals[k],
                                                MeasurementWeight(k))], 1, n)
                 /\ \A a, b \in BoundIdx :
                       aMatrix[a][b] =
                           SumTo([k \in 1 .. n |->
                                     AMatrixMeas(MeasurementJacobian(k),
                                                 MeasurementWeight(k))[a][b]], 1, n)
                 /\ \A a \in BoundIdx :
                       bVector[a] =
                           SumTo([k \in 1 .. n |->
                                     BVectorMeas(MeasurementJacobian(k),
                                                 MeasurementWeight(k),
                                                 result.collectorResiduals[k])[a]], 1, n))

\* a second iteration has ended whose non-zero sums differ from what the
\* first one left: the update of the first iteration removed the residuals
C19_Witness ==
    /\ IterationEnded
    /\ nUpdate = 2
    /\ Len(result.collectorResiduals) = 2
    /\ params # fitInput.sParameters
    /\ aMatrix # ZeroMatrix
    /\ chi2sum = 0

\* C20: the Jacobian recorded for a measurement surface is the product of the
\* per-surface Jacobians of the measurement surfaces reached so far, that is
\* the Jacobian from the start of the propagation to that surface.
C20_RecordedJacobianIsFromStart ==
    [][RecordsMeasurement =>
          /\ Len(result'.collectorJacobians) = Len(result.collectorJacobians) + 1
          /\ result'.collectorJacobians[Len(result'.collectorJacobians)] =
                 SegmentJacobian(navPos')]_vars

\* how far coordinate c of the track wiggled in loop iteration k is from the
\* unperturbed vector; the angle phi is compared on the circle
WiggleOffset(k, c) ==
    LET track == WiggledCurvilinearParams(wiggledVecs[k])
    IN  IF c = eLinPhi
        THEN DifferencePeriodic(track[c], paramVec[c], TwoPi)
        ELSE track[c] - paramVec[c]

\* C21: the track from which Jacobian column i is computed differs from the
\* unperturbed vector at the PCA in coordinate i only, by delta, whatever the
\* columns before it; and the propagation direction is chosen from the path
\* length of each wiggled track, zero counting as forward.
C21_OnlyCoordinateIWiggled ==
    /\ [](linPc \in {"wiggle", "done"} =>
             \A k \in 1 .. Len(wiggledVecs) : \A c \in LinIdx :
                 WiggleOffset(k, c) = IF c = k - 1 THEN Delta ELSE 0)
    /\ [][(linPc = "wiggle" /\ linI' = linI + 1) =>
             LET track == WiggledCurvilinearParams(wiggledVecs'[linI'])
             IN  pOptionsDirection' =
                     IF IntersectPathLength(track) >= 0 THEN "Forward" ELSE "Backward"]_vars

\* C22: fit adds the update to the parameters when an iteration starts and
\* solves for the next update when it ends; the parameters are the start
\* parameters before the first iteration and change at no other place, so the
\* returned parameters are the start parameters plus the updates solved in all
\* iterations but the last, and the start parameters for nUpdateMax <= 1.
C22_LastUpdateIsNeverApplied ==
    /\ []((fitPc = "loop" /\ nUpdate = 0) =>
             (params = fitInput.sParameters /\ deltaParams = ZeroVector))
    /\ [][(fitPc = "loop" /\ fitPc' = "propagate") =>
             (params' = VecAdd(params, deltaParams) /\ deltaParams' = deltaParams)]_vars
    /\ [][params' # params => (fitPc = "loop" /\ fitPc' = "propagate")]_vars
    /\ [][deltaParams' # deltaParams => (fitPc = "propagated" /\ fitPc' = "loop")]_vars
    /\ [][fitPc' = "done" =>
             (tracks' = Append(tracks, tracks'[Len(tracks')])
                 /\ tracks'[Len(tracks')].parameters = params)]_vars
    /\ []((fitPc = "done" /\ fitInput.nUpdateMax <= 1) =>
             tracks[Len(tracks)].parameters = fitInput.sParameters)

\* a fit of two iterations returned parameters moved by the first update, with
\* the update solved in the second iteration non-zero and not applied
C22_Witness ==
    /\ fitPc = "done"
    /\ fitInput.nUpdateMax = 2
    /\ tracks[1].parameters # fitInput.sParameters
    /\ deltaParams # ZeroVector

\* the last entry of a collector
LastOf(seq) == seq[Len(seq)]

\* the entries a collector held before are kept and one is added
GrowsByOne(seq, seqNext) ==
    /\ Len(seqNext) = Len(seq) + 1
    /\ \A k \in 1 .. Len(seq) : seqNext[k] = seq[k]

\* a step of the propagation that changes a collector
CollectorChanges ==
    /\ fitPc = "propagate"
    /\ fitPc' = "propagate"
    /\ \/ result'.collectorResiduals # result.collectorResiduals
       \/ result'.collectorCovariance # result.collectorCovariance
       \/ result'.collectorJacobians # result.collectorJacobians

\* C23: within a propagation the collectors of residuals, covariances and
\* Jacobians have the same length, at most the surface count; they change only
\* together, in an actor step on a measurement surface that adds to each of
\* them the entry of that surface and keeps the entries before it.
C23_CollectorsStayAligned ==
    /\ [](fitPc \in {"propagate", "propagated"} =>
             /\ Len(result.collectorResiduals) = Len(result.collectorCovariance)
             /\ Len(result.collectorResiduals) = Len(result.collectorJacobians)
             /\ Len(result.collectorResiduals) <= result.surfaceCount)
    /\ [][CollectorChanges =>
             /\ propPhase = "actor"
             /\ navPos' = navPos + 1
             /\ navPos' \in DOMAIN inputMeasurements
             /\ result'.surfaceCount = result.surfaceCount + 1
             /\ GrowsByOne(result.collectorResiduals, result'.collectorResiduals)
             /\ GrowsByOne(result.collectorCovariance, result'.collectorCovariance)
             /\ GrowsByOne(result.collectorJacobians, result'.collectorJacobians)
             /\ LastOf(result'.collectorResiduals) =
                    ResidualOf(inputMeasurements[navPos'].calibrated,
                               BoundParametersAt(params, navPos'))
             /\ LastOf(result'.collectorCovariance) =
                    inputMeasurements[navPos'].calibratedCovariance
             /\ LastOf(result'.collectorJacobians) = result'.jacobianFromStart]_vars

\* two measurement surfaces with different measurement covariances were
\* recorded, with a surface without a measurement counted as well
C23_Witness ==
    /\ fitPc = "propagate"
    /\ Len(result.collectorResiduals) = 2
    /\ Len(result.collectorCovariance) = 2
    /\ Len(result.collectorJacobians) = 2
    /\ result.surfaceCount > 2
    /\ result.collectorCovariance[1] # result.collectorCovariance[2]
    /\ result.collectorJacobians[1] # result.collectorJacobians[2]

\* the positions of the input source links with geometry identifier g
LinksOn(g) ==
    {k \in 1 .. Len(fitInput.sourceLinks) : fitInput.sourceLinks[k].geoId = g}

\* the first input source link with geometry identifier g
FirstLinkOn(g) ==
    fitInput.sourceLinks[CHOOSE k \in LinksOn(g) : \A j \in LinksOn(g) : k <= j]

\* C24: the measurements of the fit are one source link per geometry
\* identifier of the input, the first in input order; they stay the same in
\* every iteration, the measurement recorded on a surface is that link's, and
\* preprocessing the input ends in no error.
C24_FirstSourceLinkPerSurfaceWins ==
    /\ [](fitPc # "start" =>
             /\ DOMAIN inputMeasurements =
                    {fitInput.sourceLinks[k].geoId : k \in 1 .. Len(fitInput.sourceLinks)}
             /\ \A g \in DOMAIN inputMeasurements :
                    inputMeasurements[g] = FirstLinkOn(g))
    /\ [][fitPc = "start" => (fitPc' = "loop" /\ fitOutcome' = "none")]_vars
    /\ [][fitPc # "start" => inputMeasurements' = inputMeasurements]_vars
    /\ [][RecordsMeasurement =>
             /\ result'.collectorResiduals[Len(result'.collectorResiduals)] =
                    ResidualOf(FirstLinkOn(navPos').calibrated,
                               BoundParametersAt(params, navPos'))
             /\ result'.collectorCovariance[Len(result'.collectorCovariance)] =
                    FirstLinkOn(navPos').calibratedCovariance]_vars

\* a fit given two differing source links on surface 1 after one on surface 2
\* has run two iterations with the first of the two
C24_Witness ==
    /\ fitPc = "done"
    /\ nUpdate = 2
    /\ fitInput.sourceLinks = <<LinkOnSecond, LinkOnFirst, LinkOnFirstShifted>>
    /\ Cardinality(DOMAIN inputMeasurements) = 2
    /\ inputMeasurements[1] = LinkOnFirst
    /\ Len(result.collectorResiduals) = 2

====
